---- MODULE Spec2Model ----
(***************************************************************************)
(* A model of docs/source/src/python/user-guide/io/cloud-storage.py: the   *)
(* file as a Python module (one string literal), the nine snippets between *)
(* its start/end markers run in one interpreter session, the nested with   *)
(* blocks of write_file_object, the two credential-provider callbacks and  *)
(* the lazy query of scan_parquet_query.  The library the snippets call    *)
(* (scan, collect, credential refresh) is not in the file: its part of the *)
(* model follows the prose specification and is marked so where defined.   *)
(***************************************************************************)
EXTENDS Integers, Sequences, FiniteSets, TLC

VARIABLES
    \* loading the file as a module
    lineNo, inString, stmts, executed,
    \* running snippets in one interpreter session
    ns, cur, pc, status, bound, entryCalls, otherCalls, reads, readBy, results,
    \* the nested with blocks of write_file_object
    wpc, withStack, cloud_f, f, written, gzPending, cloudChunks, uploaded, lateWrites, hlog, exc,
    \* the credential providers and the library that calls them
    now, issued, apc, credential, token, invStart, azRet, retToken, azHeld, azUse,
    awsRet, awsHeld, awsInvocations, awsFetchedAt, awsUse,
    \* the lazy query of scan_parquet_query
    schema, bucket, qpc, lf, df

loadVars == <<lineNo, inString, stmts, executed>>
snipVars == <<ns, cur, pc, status, bound, entryCalls, otherCalls, reads, readBy, results>>
withVars == <<wpc, withStack, cloud_f, f, written, gzPending, cloudChunks, uploaded, lateWrites, hlog, exc>>
azVars == <<issued, apc, credential, token, invStart, azRet, retToken, azHeld, azUse>>
awsVars == <<awsRet, awsHeld, awsInvocations, awsFetchedAt, awsUse>>
credVars == <<now, azVars, awsVars>>
queryVars == <<schema, bucket, qpc, lf, df>>
vars == <<loadVars, snipVars, withVars, credVars, queryVars>>

None == "none"

(***************************************************************************)
(* The file as a Python module.                                            *)
(***************************************************************************)

\* the file has 139 lines; line 139 is the closing triple quote
NumLines == 139

\* a faulty variant of TripleQuoteLines: the opening delimiter of line 1 is missing
TripleQuoteLinesUnopened == {}

\* the lines that hold a triple quote: line 1 opens the literal, line 139 closes it
TripleQuoteLines == {1, 139}

BlankLines ==
    {4, 6, 9, 12, 14, 17, 18, 21, 23, 31, 43, 46, 50, 56, 57, 62, 65, 70, 72,
     73, 78, 80, 87, 89, 93, 102, 105, 112, 114, 116, 118, 123, 130, 132, 134}

\* the doc-extraction markers and the comment of line 79
CommentLines ==
    {2, 8, 10, 16, 19, 30, 32, 45, 47, 64, 66, 79, 88, 90, 101, 103, 117, 119, 138}

\* the lines that would run as code if they were not inside the literal
CodeLines == (1..NumLines) \ (TripleQuoteLines \cup BlankLines \cup CommentLines)

LoadInit ==
    /\ lineNo = 1
    /\ inString = FALSE
    /\ stmts = 0
    /\ executed = {}

\* The interpreter reads one line of the file.  A triple quote opens or closes
\* the string literal; a closed literal is one expression statement.  Inside
\* the literal a line is text.  Outside it a code line is executed.
LoadLine ==
    /\ lineNo <= NumLines
    /\ lineNo' = lineNo + 1
    /\ IF lineNo \in TripleQuoteLines
       THEN /\ inString' = ~inString
            /\ stmts' = IF inString THEN stmts + 1 ELSE stmts
            /\ executed' = executed
       ELSE IF inString
       THEN UNCHANGED <<inString, stmts, executed>>
       ELSE /\ executed' = IF lineNo \in CodeLines
                           THEN executed \cup {lineNo} ELSE executed
            /\ stmts' = IF lineNo \in CodeLines THEN stmts + 1 ELSE stmts
            /\ inString' = inString
    /\ UNCHANGED <<snipVars, withVars, credVars, queryVars>>

Loaded == lineNo > NumLines

(***************************************************************************)
(* The snippets.  Each is the text between one pair of markers, given here *)
(* as its operations in evaluation order: the line, the call, its kind,    *)
(* the global names it reads and the names it binds.                       *)
(*   import    an import statement                                         *)
(*   assign    a path string or an options mapping bound to a name         *)
(*   def       a function definition (reads: its annotations)              *)
(*   entry     a call of a library entry point (read_parquet, scan_parquet,*)
(*             scan_pyarrow_dataset, DataFrame, write_parquet, write_csv)  *)
(*   provider  construction of a library credential-provider object        *)
(*   chain     filter / select / collect chained on a lazy query           *)
(*   third     a call of a third-party SDK                                 *)
(***************************************************************************)

Op(l, c, k, r, b) == [line |-> l, call |-> c, kind |-> k, reads |-> r, binds |-> b]

read_parquet ==
    << Op(3, "import polars", "import", {}, {"pl"}),
       Op(5, "source", "assign", {}, {"source"}),
       Op(7, "read_parquet", "entry", {"pl", "source"}, {"df"}) >>

scan_parquet_query ==
    << Op(11, "import polars", "import", {}, {"pl"}),
       Op(13, "source", "assign", {}, {"source"}),
       Op(15, "scan_parquet", "entry", {"pl", "source"}, {}),
       Op(15, "filter", "chain", {"pl"}, {}),
       Op(15, "select", "chain", {}, {}),
       Op(15, "collect", "chain", {}, {"df"}) >>

scan_parquet_storage_options_aws ==
    << Op(20, "import polars", "import", {}, {"pl"}),
       Op(22, "source", "assign", {}, {"source"}),
       Op(24, "storage_options", "assign", {}, {"storage_options"}),
       Op(29, "scan_parquet", "entry", {"pl", "source", "storage_options"}, {}),
       Op(29, "collect", "chain", {}, {"df"}) >>

\* lines 36-37: no comma between the two keyword arguments, so the snippet
\* does not compile; these are the operations its text spells
credential_provider_class ==
    << Op(35, "CredentialProviderAWS", "provider", {"pl"}, {}),
       Op(33, "scan_parquet", "entry", {"pl"}, {"lf"}),
       Op(44, "collect", "chain", {"lf"}, {"df"}) >>

\* line 48: the return annotation pl.CredentialProviderFunctionReturn is
\* evaluated when the def statement runs
credential_provider_custom_func ==
    << Op(48, "get_credentials", "def", {"pl"}, {"get_credentials"}),
       Op(58, "scan_parquet", "entry", {"pl", "get_credentials"}, {"lf"}),
       Op(63, "collect", "chain", {"lf"}, {"df"}) >>

\* a faulty variant of the Azure snippet: the first scan is collected
credential_provider_custom_func_azure_collected ==
    << Op(67, "credential_provider", "def", {}, {"credential_provider"}),
       Op(74, "scan_parquet", "entry", {"pl", "credential_provider"}, {}),
       Op(77, "collect", "chain", {}, {}),
       Op(84, "DefaultAzureCredential", "third", {"pl", "DefaultAzureCredential"}, {}),
       Op(83, "CredentialProviderAzure", "provider", {"pl"}, {}),
       Op(81, "scan_parquet", "entry", {"pl"}, {}) >>

\* lines 81-86: pl.scan_parquet and pl.CredentialProviderAzure are looked up,
\* then DefaultAzureCredential(...) is called, then the provider is
\* constructed, then scan_parquet is called
credential_provider_custom_func_azure ==
    << Op(67, "credential_provider", "def", {}, {"credential_provider"}),
       Op(74, "scan_parquet", "entry", {"pl", "credential_provider"}, {}),
       Op(84, "DefaultAzureCredential", "third", {"pl", "DefaultAzureCredential"}, {}),
       Op(83, "CredentialProviderAzure", "provider", {"pl"}, {}),
       Op(81, "scan_parquet", "entry", {"pl"}, {}) >>

scan_pyarrow_dataset ==
    << Op(91, "import polars", "import", {}, {"pl"}),
       Op(92, "import pyarrow.dataset", "import", {}, {"ds"}),
       Op(94, "ds.dataset", "third", {"ds"}, {"dset"}),
       Op(96, "scan_pyarrow_dataset", "entry", {"pl", "dset"}, {}),
       Op(97, "filter", "chain", {"pl"}, {}),
       Op(98, "select", "chain", {}, {}),
       Op(99, "collect", "chain", {}, {}) >>

\* a faulty variant of write_parquet: the written file is read back
write_parquet_read_back ==
    << Op(104, "import polars", "import", {}, {"pl"}),
       Op(106, "DataFrame", "entry", {"pl"}, {"df"}),
       Op(113, "destination", "assign", {}, {"destination"}),
       Op(115, "write_parquet", "entry", {"df", "destination"}, {}),
       Op(116, "read_parquet", "entry", {"pl", "destination"}, {"df"}) >>

write_parquet ==
    << Op(104, "import polars", "import", {}, {"pl"}),
       Op(106, "DataFrame", "entry", {"pl"}, {"df"}),
       Op(113, "destination", "assign", {}, {"destination"}),
       Op(115, "write_parquet", "entry", {"df", "destination"}, {}) >>

write_file_object ==
    << Op(120, "import polars", "import", {}, {"pl"}),
       Op(121, "import s3fs", "import", {}, {"s3fs"}),
       Op(122, "import gzip", "import", {}, {"gzip"}),
       Op(124, "DataFrame", "entry", {"pl"}, {"df"}),
       Op(131, "destination", "assign", {}, {"destination"}),
       Op(133, "S3FileSystem", "third", {"s3fs"}, {"fs"}),
       Op(135, "fs.open", "third", {"fs", "destination"}, {"cloud_f"}),
       Op(136, "gzip.open", "third", {"gzip", "cloud_f"}, {"f"}),
       Op(137, "write_csv", "entry", {"df", "f"}, {}) >>

Snippets ==
    {"read_parquet", "scan_parquet_query", "scan_parquet_storage_options_aws",
     "credential_provider_class", "credential_provider_custom_func",
     "credential_provider_custom_func_azure", "scan_pyarrow_dataset",
     "write_parquet", "write_file_object"}

Program(s) ==
    CASE s = "read_parquet" -> read_parquet
      [] s = "scan_parquet_query" -> scan_parquet_query
      [] s = "scan_parquet_storage_options_aws" -> scan_parquet_storage_options_aws
      [] s = "credential_provider_class" -> credential_provider_class
      [] s = "credential_provider_custom_func" -> credential_provider_custom_func
      [] s = "credential_provider_custom_func_azure" -> credential_provider_custom_func_azure
      [] s = "scan_pyarrow_dataset" -> scan_pyarrow_dataset
      [] s = "write_parquet" -> write_parquet
      [] s = "write_file_object" -> write_file_object

\* the line of the snippet's syntax error, 0 when it compiles
SyntaxErrorLine(s) == IF s = "credential_provider_class" THEN 36 ELSE 0

OpsOf(s) == {Program(s)[i] : i \in 1..Len(Program(s))}
AllReads == UNION {o.reads : o \in UNION {OpsOf(s) : s \in Snippets}}
AllBinds == UNION {o.binds : o \in UNION {OpsOf(s) : s \in Snippets}}

\* the names the snippets read and no snippet binds: the session may or may
\* not hold them before any snippet runs
FreeNames == AllReads \ AllBinds

\* The library's part, from the prose specification (glossary, "Lazy scan"):
\* a scan and the filter and select chained on it only build the query; the
\* explicit materialization call, and the eager read, read remote data.
ReadsRemote(call) == call \in {"read_parquet", "collect"}

SnipInit ==
    /\ ns \in SUBSET FreeNames
    /\ cur = None
    /\ pc = 0
    /\ status = "idle"
    /\ bound = {}
    /\ entryCalls = 0
    /\ otherCalls = {}
    /\ reads = 0
    /\ readBy = {}
    /\ results = [s \in Snippets |-> {}]

\* The session compiles snippet s and, when it compiles, starts to run it.
Start(s) ==
    /\ status = "idle"
    /\ cur' = s
    /\ bound' = {}
    /\ entryCalls' = 0
    /\ otherCalls' = {}
    /\ reads' = 0
    /\ readBy' = {}
    /\ ns' = ns
    /\ IF SyntaxErrorLine(s) # 0
       THEN /\ status' = "idle"
            /\ pc' = 0
            /\ results' = [results EXCEPT ![s] = @ \cup {<<"SyntaxError", SyntaxErrorLine(s)>>}]
       ELSE /\ status' = "running"
            /\ pc' = 1
            /\ results' = results
    /\ UNCHANGED <<loadVars, withVars, credVars, queryVars>>

\* The session runs the next operation of the current snippet: a read of an
\* unbound name raises NameError and ends the run.
Step ==
    /\ status = "running"
    /\ LET o == Program(cur)[pc]
           last == pc = Len(Program(cur))
       IN IF o.reads \subseteq ns
          THEN /\ ns' = ns \cup o.binds
               /\ bound' = bound \cup o.binds
               /\ entryCalls' = IF o.kind = "entry" THEN entryCalls + 1 ELSE entryCalls
               /\ otherCalls' = IF o.kind \in {"def", "provider", "third"}
                                THEN otherCalls \cup {o.call} ELSE otherCalls
               /\ reads' = IF ReadsRemote(o.call) THEN reads + 1 ELSE reads
               /\ readBy' = IF ReadsRemote(o.call) THEN readBy \cup {o.call} ELSE readBy
               /\ pc' = pc + 1
               /\ status' = IF last THEN "idle" ELSE "running"
               /\ results' = IF last
                             THEN [results EXCEPT ![cur] = @ \cup {<<"ok", 0>>}]
                             ELSE results
          ELSE /\ status' = "idle"
               /\ results' = [results EXCEPT ![cur] = @ \cup {<<"NameError", o.line>>}]
               /\ UNCHANGED <<ns, bound, entryCalls, otherCalls, reads, readBy, pc>>
    /\ cur' = cur
    /\ UNCHANGED <<loadVars, withVars, credVars, queryVars>>

SnipIdle == SnipInit /\ ns = {}

(***************************************************************************)
(* write_file_object, lines 131-137: the remote handle cloud_f, the gzip   *)
(* stream f that wraps it, and df.write_csv(f) inside both with blocks.    *)
(***************************************************************************)

\* the DataFrame of lines 124-129 has five rows
RowCount == 5

\* what write_csv hands to f: the header line and one line per row
CsvChunks == RowCount + 1

\* a faulty variant of NextToExit: the outer context manager is exited first
NextToExitOuterFirst(stack) == stack[1]

\* lines 135-136: nested with blocks exit innermost first
NextToExit(stack) == stack[Len(stack)]

Without(stack, h) == SelectSeq(stack, LAMBDA x : x # h)

WithInit ==
    /\ wpc = "L135"
    /\ withStack = <<>>
    /\ cloud_f = "unopened"
    /\ f = "unopened"
    /\ written = 0
    /\ gzPending = 0
    /\ cloudChunks = 0
    /\ uploaded = 0
    /\ lateWrites = 0
    /\ hlog = <<>>
    /\ exc = None

\* n chunks reach the remote handle, which buffers them and may upload what it
\* has buffered; they are counted as late when the handle is not open
CloudWrite(n) ==
    IF cloud_f = "open"
    THEN /\ cloudChunks' = cloudChunks + n
         /\ lateWrites' = lateWrites
         /\ \E upload \in BOOLEAN :
               uploaded' = IF upload THEN cloudChunks + n ELSE uploaded
    ELSE /\ lateWrites' = lateWrites + n
         /\ UNCHANGED <<cloudChunks, uploaded>>

\* line 135: fs.open(destination, "wb") returns the open handle, which the
\* with statement enters
fs_open ==
    /\ wpc = "L135"
    /\ cloud_f' = "open"
    /\ withStack' = Append(withStack, "cloud_f")
    /\ hlog' = Append(hlog, "open cloud_f")
    /\ wpc' = "L136"
    /\ UNCHANGED <<f, written, gzPending, cloudChunks, uploaded, lateWrites, exc>>
    /\ UNCHANGED <<loadVars, snipVars, credVars, queryVars>>

\* line 135: fs.open raises, no with block is entered
fs_open_raises ==
    /\ wpc = "L135"
    /\ exc' = "fs.open"
    /\ wpc' = "done"
    /\ UNCHANGED <<withStack, cloud_f, f, written, gzPending, cloudChunks, uploaded, lateWrites, hlog>>
    /\ UNCHANGED <<loadVars, snipVars, credVars, queryVars>>

\* line 136: gzip.open(cloud_f, "w") wraps the handle and writes the gzip
\* header to it
gzip_open ==
    /\ wpc = "L136"
    /\ f' = "open"
    /\ withStack' = Append(withStack, "f")
    /\ hlog' = Append(hlog, "open f")
    /\ CloudWrite(1)
    /\ wpc' = "L137"
    /\ UNCHANGED <<cloud_f, written, gzPending, exc>>
    /\ UNCHANGED <<loadVars, snipVars, credVars, queryVars>>

\* line 136: gzip.open raises inside the outer with block
gzip_open_raises ==
    /\ wpc = "L136"
    /\ exc' = "gzip.open"
    /\ wpc' = "exit"
    /\ UNCHANGED <<withStack, cloud_f, f, written, gzPending, cloudChunks, uploaded, lateWrites, hlog>>
    /\ UNCHANGED <<loadVars, snipVars, credVars, queryVars>>

\* line 137: write_csv hands the next chunk to f; the compressor keeps it or
\* pushes what it holds to the remote handle; after the last chunk the body
\* of the with blocks is left
write_csv ==
    /\ wpc = "L137"
    /\ written < CsvChunks
    /\ written' = written + 1
    /\ \E flush \in BOOLEAN :
          IF flush
          THEN gzPending' = 0 /\ CloudWrite(gzPending + 1)
          ELSE gzPending' = gzPending + 1 /\ UNCHANGED <<cloudChunks, uploaded, lateWrites>>
    /\ wpc' = IF written + 1 = CsvChunks THEN "exit" ELSE "L137"
    /\ UNCHANGED <<withStack, cloud_f, f, hlog, exc>>
    /\ UNCHANGED <<loadVars, snipVars, credVars, queryVars>>

\* line 137: write_csv raises before a chunk is written
write_csv_raises ==
    /\ wpc = "L137"
    /\ written < CsvChunks
    /\ exc' = "write_csv"
    /\ wpc' = "exit"
    /\ UNCHANGED <<withStack, cloud_f, f, written, gzPending, cloudChunks, uploaded, lateWrites, hlog>>
    /\ UNCHANGED <<loadVars, snipVars, credVars, queryVars>>

\* leaving the with blocks, normally or by an exception: the next context
\* manager is exited.  Closing f pushes what the compressor holds and the gzip
\* trailer to the remote handle; closing cloud_f uploads what the handle has
\* buffered and closes it.  A close that raises has still closed its handle.
with_exit ==
    /\ wpc = "exit"
    /\ withStack # <<>>
    /\ LET h == NextToExit(withStack)
       IN /\ withStack' = Without(withStack, h)
          /\ hlog' = Append(hlog, IF h = "f" THEN "close f" ELSE "close cloud_f")
          /\ IF h = "f"
             THEN /\ f' = "closed"
                  /\ gzPending' = 0
                  /\ CloudWrite(gzPending + 1)
                  /\ cloud_f' = cloud_f
                  /\ \E raises \in BOOLEAN :
                        exc' = IF raises /\ exc = None THEN "f.close" ELSE exc
             ELSE /\ cloud_f' = "closed"
                  /\ UNCHANGED <<f, gzPending, cloudChunks, lateWrites>>
                  /\ \E raises \in BOOLEAN :
                        /\ exc' = IF raises /\ exc = None THEN "cloud_f.close" ELSE exc
                        /\ uploaded' = IF raises THEN uploaded ELSE cloudChunks
    /\ UNCHANGED <<wpc, written>>
    /\ UNCHANGED <<loadVars, snipVars, credVars, queryVars>>

\* every with block has been left: the statement after line 137 is reached, or
\* the exception leaves the snippet
with_left ==
    /\ wpc = "exit"
    /\ withStack = <<>>
    /\ wpc' = "done"
    /\ UNCHANGED <<withStack, cloud_f, f, written, gzPending, cloudChunks, uploaded, lateWrites, hlog, exc>>
    /\ UNCHANGED <<loadVars, snipVars, credVars, queryVars>>

WithNext ==
    \/ fs_open \/ fs_open_raises \/ gzip_open \/ gzip_open_raises
    \/ write_csv \/ write_csv_raises \/ with_exit \/ with_left

(***************************************************************************)
(* The credential providers (lines 48-55 and 67-71) and the library that   *)
(* calls them.  An optional value is <<>> (none) or <<v>>.  A token of the *)
(* identity service is [token, expires_on]; its secret is its serial       *)
(* number, so two tokens never share a secret, while two tokens may expire *)
(* at the same time.                                                       *)
(***************************************************************************)

MaxTime == 5
MaxTTL == 2
MaxTokens == 3

\* a faulty variant of get_credentials: the session token is left out
get_credentials_no_session_token ==
    [creds |-> [aws_access_key_id |-> "...", aws_secret_access_key |-> "..."],
     expiry |-> <<>>]

\* a faulty variant of get_credentials: expiry is a timestamp
get_credentials_expiring ==
    [creds |-> [aws_access_key_id |-> "...", aws_secret_access_key |-> "...",
                aws_session_token |-> "..."],
     expiry |-> <<0>>]

\* lines 48-55: expiry = None; return {three fields}, expiry
get_credentials ==
    [creds |-> [aws_access_key_id |-> "...", aws_secret_access_key |-> "...",
                aws_session_token |-> "..."],
     expiry |-> <<>>]

\* a faulty variant of credential_provider_return: the expiry is dropped
credential_provider_return_no_expiry(tok) ==
    [creds |-> [bearer_token |-> tok.token], expiry |-> <<>>]

\* a faulty variant of credential_provider_return: the expiry of the first token ever
\* obtained is returned
credential_provider_return_first_expiry(tok) ==
    [creds |-> [bearer_token |-> tok.token], expiry |-> <<issued[1].expires_on>>]

\* line 71: return {"bearer_token": token.token}, token.expires_on
credential_provider_return(tok) ==
    [creds |-> [bearer_token |-> tok.token], expiry |-> <<tok.expires_on>>]

\* The library's part, from the prose specification (section 6 and the
\* glossary): the callback is invoked initially, and again once the expiry it
\* returned has passed; an expiry of none never passes.
NeedsRefresh(held, t) ==
    IF held = <<>> THEN TRUE
    ELSE IF held[1].expiry = <<>> THEN FALSE
    ELSE held[1].expiry[1] < t

AzInit ==
    /\ issued = <<>>
    /\ apc = "idle"
    /\ credential = FALSE
    /\ token = 0
    /\ invStart = 0
    /\ azRet = <<>>
    /\ retToken = 0
    /\ azHeld = <<>>
    /\ azUse = <<>>

AwsInit ==
    /\ awsRet = <<>>
    /\ awsHeld = <<>>
    /\ awsInvocations = 0
    /\ awsFetchedAt = 0
    /\ awsUse = None

CredInit == now = 0 /\ AzInit /\ AwsInit

\* the clock advances
Tick ==
    /\ now < MaxTime
    /\ now' = now + 1
    /\ UNCHANGED <<azVars, awsVars>>
    /\ UNCHANGED <<loadVars, snipVars, withVars, queryVars>>

\* A request to Azure storage while the library holds credentials whose expiry
\* has not passed: they are used.
AzRequestHeld ==
    /\ apc = "idle"
    /\ ~NeedsRefresh(azHeld, now)
    /\ azUse' = <<[time |-> now, token |-> azHeld[1].creds.bearer_token, fresh |-> FALSE]>>
    /\ UNCHANGED <<issued, apc, credential, token, invStart, azRet, retToken, azHeld>>
    /\ UNCHANGED <<now, awsVars>>
    /\ UNCHANGED <<loadVars, snipVars, withVars, queryVars>>

\* A request to Azure storage while the library holds no credentials, or holds
\* credentials whose expiry has passed: the library invokes credential_provider.
AzRequestRefresh ==
    /\ apc = "idle"
    /\ NeedsRefresh(azHeld, now)
    /\ Len(issued) < MaxTokens
    /\ apc' = "L68"
    /\ invStart' = Len(issued)
    /\ credential' = FALSE
    /\ token' = 0
    /\ UNCHANGED <<issued, azRet, retToken, azHeld, azUse>>
    /\ UNCHANGED <<now, awsVars>>
    /\ UNCHANGED <<loadVars, snipVars, withVars, queryVars>>

\* line 68: credential = DefaultAzureCredential(...)
credential_provider_L68 ==
    /\ apc = "L68"
    /\ credential' = TRUE
    /\ apc' = "L69"
    /\ UNCHANGED <<issued, token, invStart, azRet, retToken, azHeld, azUse>>
    /\ UNCHANGED <<now, awsVars>>
    /\ UNCHANGED <<loadVars, snipVars, withVars, queryVars>>

\* line 69: token = credential.get_token(...): the identity service issues a
\* token that expires after some lifetime
credential_provider_L69 ==
    /\ apc = "L69"
    /\ credential
    /\ \E ttl \in 1..MaxTTL :
          issued' = Append(issued, [token |-> Len(issued) + 1, expires_on |-> now + ttl])
    /\ token' = Len(issued) + 1
    /\ apc' = "L71"
    /\ UNCHANGED <<credential, invStart, azRet, retToken, azHeld, azUse>>
    /\ UNCHANGED <<now, awsVars>>
    /\ UNCHANGED <<loadVars, snipVars, withVars, queryVars>>

\* line 71: the callback returns; the library holds what it returned and uses
\* it for the request that asked for it
credential_provider_L71 ==
    /\ apc = "L71"
    /\ LET ret == credential_provider_return(issued[token])
       IN /\ azRet' = <<ret>>
          /\ azHeld' = <<ret>>
          /\ azUse' = <<[time |-> now, token |-> ret.creds.bearer_token, fresh |-> TRUE]>>
    /\ retToken' = token
    /\ apc' = "idle"
    /\ UNCHANGED <<issued, credential, token, invStart>>
    /\ UNCHANGED <<now, awsVars>>
    /\ UNCHANGED <<loadVars, snipVars, withVars, queryVars>>

\* A request to S3 (lf.collect(), line 63): the library invokes
\* get_credentials when it holds nothing or the held expiry has passed, and
\* uses what it holds otherwise.
AwsRequest ==
    /\ IF NeedsRefresh(awsHeld, now)
       THEN /\ awsInvocations < MaxTokens
            /\ awsRet' = <<get_credentials>>
            /\ awsHeld' = <<get_credentials>>
            /\ awsInvocations' = awsInvocations + 1
            /\ awsFetchedAt' = now
            /\ awsUse' = "fresh"
       ELSE /\ awsUse' = "held"
            /\ UNCHANGED <<awsRet, awsHeld, awsInvocations, awsFetchedAt>>
    /\ UNCHANGED <<now, azVars>>
    /\ UNCHANGED <<loadVars, snipVars, withVars, queryVars>>

CredNext ==
    \/ Tick
    \/ AzRequestHeld \/ AzRequestRefresh
    \/ credential_provider_L68 \/ credential_provider_L69 \/ credential_provider_L71
    \/ AwsRequest

(***************************************************************************)
(* scan_parquet_query, lines 13-15.  The bucket holds the files the glob   *)
(* of line 13 matches; a file is a sequence of rows, a row a record of its *)
(* columns, and every file stores its columns in the order of schema.  A   *)
(* table is [cols, rows]: the column names in order, and the rows.         *)
(***************************************************************************)

MaxRows == 3

\* the ids and values the rows are drawn from: ids below, at and above the
\* bound of the filter
IdValues == {99, 100, 101}
ValueValues == {1, 2}
Rows == [id : IdValues, value : ValueValues, other : {0}]
Schemas == {<<"id", "value", "other">>, <<"other", "value", "id">>}

RECURSIVE SeqsUpTo(_, _)
SeqsUpTo(S, n) ==
    IF n = 0 THEN {<<>>}
    ELSE LET shorter == SeqsUpTo(S, n - 1)
         IN shorter \cup {Append(q, x) : q \in {r \in shorter : Len(r) = n - 1}, x \in S}

\* line 15: .filter(pl.col("id") < 100)
QueryBound == 100

\* a faulty variant of QuerySelect: the two columns are selected in the other order
QuerySelectSwapped == <<"value", "id">>

\* line 15: .select("id","value")
QuerySelect == <<"id", "value">>

Restrict(row, cols) == [c \in cols |-> row[c]]
Range(q) == {q[i] : i \in 1..Len(q)}
RestrictAll(rows, cols) == [i \in 1..Len(rows) |-> Restrict(rows[i], cols)]

\* The library's part, from the prose specification (section 4, pattern 2, and
\* the glossary): scan, filter and select build a query; collect runs it with
\* the filter and the projection pushed down to the reader of each file.
ScanParquet(source) == [source |-> source, predicate |-> <<>>, projection |-> <<>>]
LazyFilter(q, b) == [q EXCEPT !.predicate = <<b>>]
LazySelect(q, cols) == [q EXCEPT !.projection = <<cols>>]

\* the row-group statistic of a file: its smallest id
MinId(file) == CHOOSE m \in {file[i].id : i \in 1..Len(file)} :
                   \A i \in 1..Len(file) : m <= file[i].id

\* the reader of one file: a file whose statistics exclude the predicate is
\* skipped, only the needed columns are decoded, and only the rows that satisfy
\* the predicate are kept
ReadPushedDown(file, need, predicate) ==
    IF predicate = <<>> THEN RestrictAll(file, need)
    ELSE IF file # <<>> /\ MinId(file) >= predicate[1] THEN <<>>
    ELSE RestrictAll(SelectSeq(file, LAMBDA r : r.id < predicate[1]), need)

Collect(q, files, sch) ==
    LET proj == IF q.projection = <<>> THEN sch ELSE q.projection[1]
        need == Range(proj) \cup (IF q.predicate = <<>> THEN {} ELSE {"id"})
        read == ReadPushedDown(files[1], need, q.predicate)
                    \o ReadPushedDown(files[2], need, q.predicate)
    IN [cols |-> proj, rows |-> RestrictAll(read, Range(proj))]

QueryIdle ==
    /\ schema = <<"id", "value", "other">>
    /\ bucket = <<<<>>, <<>>>>
    /\ qpc = "L15"
    /\ lf = <<>>
    /\ df = <<>>

QueryInit ==
    /\ schema \in Schemas
    /\ \E rows \in SeqsUpTo(Rows, MaxRows) : \E split \in 0..Len(rows) :
          bucket = <<SubSeq(rows, 1, split), SubSeq(rows, split + 1, Len(rows))>>
    /\ qpc = "L15"
    /\ lf = <<>>
    /\ df = <<>>

\* line 15: pl.scan_parquet(source)
scan_parquet ==
    /\ qpc = "L15"
    /\ lf' = <<ScanParquet("s3://bucket/*.parquet")>>
    /\ qpc' = "scanned"
    /\ UNCHANGED <<schema, bucket, df>>
    /\ UNCHANGED <<loadVars, snipVars, withVars, credVars>>

\* line 15: .filter(pl.col("id") < 100)
filter ==
    /\ qpc = "scanned"
    /\ lf' = <<LazyFilter(lf[1], QueryBound)>>
    /\ qpc' = "filtered"
    /\ UNCHANGED <<schema, bucket, df>>
    /\ UNCHANGED <<loadVars, snipVars, withVars, credVars>>

\* line 15: .select("id","value")
select ==
    /\ qpc = "filtered"
    /\ lf' = <<LazySelect(lf[1], QuerySelect)>>
    /\ qpc' = "selected"
    /\ UNCHANGED <<schema, bucket, df>>
    /\ UNCHANGED <<loadVars, snipVars, withVars, credVars>>

\* line 15: .collect(), bound to df
collect ==
    /\ qpc = "selected"
    /\ df' = <<Collect(lf[1], bucket, schema)>>
    /\ qpc' = "collected"
    /\ UNCHANGED <<schema, bucket, lf>>
    /\ UNCHANGED <<loadVars, snipVars, withVars, credVars>>

QueryNext == scan_parquet \/ filter \/ select \/ collect

(***************************************************************************)
(* Specifications                                                          *)
(***************************************************************************)

LoadNext == LoadLine
SnipNext == (\E s \in Snippets : Start(s)) \/ Step

InitLoad == LoadInit /\ SnipIdle /\ WithInit /\ CredInit /\ QueryIdle
InitSnippets == LoadInit /\ SnipInit /\ WithInit /\ CredInit /\ QueryIdle
InitWith == LoadInit /\ SnipIdle /\ WithInit /\ CredInit /\ QueryIdle
InitCred == LoadInit /\ SnipIdle /\ WithInit /\ CredInit /\ QueryIdle
InitQuery == LoadInit /\ SnipIdle /\ WithInit /\ CredInit /\ QueryInit

\* loading the file
SpecLoad == InitLoad /\ [][LoadNext]_vars

\* running the snippets, in any order and any number of times, in one session
SpecSnippets == InitSnippets /\ [][SnipNext]_vars

\* the with blocks of write_file_object; the interpreter keeps running the
\* statement it is at, so a step that can be taken is taken
SpecWith == InitWith /\ [][WithNext]_vars /\ WF_vars(WithNext)

\* the credential providers under the library's requests and the clock
SpecCred == InitCred /\ [][CredNext]_vars

\* the lazy query over every bucket of at most MaxRows rows
SpecQuery == InitQuery /\ [][QueryNext]_vars

(***************************************************************************)
(* Claims                                                                  *)
(***************************************************************************)

\* C10: the file is one module-level string literal that holds every snippet:
\* while it loads and after, no line of it has run as code (no entry point
\* called, no provider invoked, no file opened, no thread started), and the
\* loaded module consists of exactly one statement, the closed literal.
C10_LoadRunsNothing ==
    /\ executed = {}
    /\ (lineNo \in 2..NumLines => inString)
    /\ (Loaded => stmts = 1 /\ ~inString)

\* C10 witness: the whole file has been read
C10_Witness == Loaded /\ stmts = 1

\* C6 as stated: no example calls more than one library entry point.
C6_AtMostOneEntryPoint == entryCalls <= 1

\* C6 amended: no example calls more than two library entry points, and the
\* only examples that call two are the Azure one (scan_parquet twice) and the
\* two write examples (the DataFrame constructor, then write_parquet or
\* write_csv).
C6_AtMostTwoEntryPoints ==
    /\ entryCalls <= 2
    /\ (entryCalls = 2 =>
            cur \in {"credential_provider_custom_func_azure", "write_parquet",
                     "write_file_object"})

\* C6 witness: the Azure example has run to its end and called scan_parquet twice
C6_Witness ==
    /\ cur = "credential_provider_custom_func_azure"
    /\ status = "idle"
    /\ entryCalls = 2

\* C7 as stated: every name an operation of a snippet reads was bound by an
\* earlier operation of the same run of that snippet, and no snippet has two
\* different outcomes in one session (its outcome does not depend on what ran
\* before it).
C7_SnippetsIndependent ==
    /\ (status = "running" => Program(cur)[pc].reads \subseteq bound)
    /\ \A s \in Snippets : Cardinality(results[s]) <= 1

\* C4: while a snippet runs, no scan_parquet, scan_pyarrow_dataset, filter or
\* select has read remote data; whenever remote data has been read, a collect
\* (or the eager read_parquet) did it; and the Azure snippet, whose scans are
\* never collected, has read nothing.
C4_LazyUntilCollect ==
    /\ readBy \cap {"scan_parquet", "scan_pyarrow_dataset", "filter", "select"} = {}
    /\ (reads > 0 => readBy \cap {"collect", "read_parquet"} # {})
    /\ (cur = "credential_provider_custom_func_azure" => reads = 0)
    /\ (cur = "scan_parquet_query" /\ pc <= 6 /\ status = "running" => reads = 0)
    /\ (cur = "scan_pyarrow_dataset" /\ pc <= 7 /\ status = "running" => reads = 0)

\* C4 witness: scan_parquet_query has run to its end, its collect has read, and
\* in the same session the Azure snippet has run both its scans
C4_Witness ==
    /\ cur = "scan_parquet_query"
    /\ status = "idle"
    /\ reads = 1
    /\ <<"ok", 0>> \in results["credential_provider_custom_func_azure"]

\* The state part of C8: cloud_f is opened before f; write_csv runs only while both are open; f is
\* closed before cloud_f; nothing reaches the remote handle unless it is open;
\* and once the with blocks are left no handle is open.
C8_Safety ==
    /\ \A i \in 1..Len(hlog) : hlog[i] = "open f" => i > 1 /\ hlog[i - 1] = "open cloud_f"
    /\ (wpc = "L137" => cloud_f = "open" /\ f = "open")
    /\ (written > 0 => f # "unopened")
    /\ \A i \in 1..Len(hlog) :
          hlog[i] = "close cloud_f" /\ f # "unopened" =>
              \E j \in 1..(i - 1) : hlog[j] = "close f"
    /\ lateWrites = 0
    /\ (wpc = "done" => cloud_f # "open" /\ f # "open")

\* C8: in write_file_object cloud_f is opened before f, write_csv runs only
\* while both are open, f is closed before cloud_f, nothing is written to the
\* remote handle after it is closed, and on every path, write_csv raising
\* included, the with blocks are eventually left with no handle open.
C8_WithBlocks == [](C8_Safety) /\ <>(wpc = "done")

\* C8 witness: write_csv raised after some chunks were written, and both
\* handles, opened, are closed
C8_Witness ==
    /\ wpc = "done"
    /\ exc = "write_csv"
    /\ written > 0
    /\ hlog = <<"open cloud_f", "open f", "close f", "close cloud_f">>

\* C1: a request to Azure storage is made only with credentials the callback
\* has returned, and a request made after the expiry of the token it uses is
\* one for which the callback was invoked anew.
C1_RefreshOnExpiry ==
    azUse # <<>> =>
        /\ azUse[1].token \in 1..Len(issued)
        /\ (issued[azUse[1].token].expires_on < azUse[1].time => azUse[1].fresh)

\* C1 witness: the first token has expired, and a later request got a second
\* one from the callback
C1_Witness ==
    /\ azUse # <<>>
    /\ azUse[1].token = 2
    /\ azUse[1].fresh
    /\ issued[1].expires_on < azUse[1].time

\* C2: get_credentials returns no expiry, so it is invoked at most once: every
\* request after the first uses the credentials of the first invocation,
\* however far the clock has advanced.
C2_NoneNeverExpires ==
    /\ awsInvocations <= 1
    /\ (awsUse = "held" => awsInvocations = 1 /\ awsHeld = awsRet)
    /\ (awsHeld # <<>> => \A t \in 0..(MaxTime + 1) : ~NeedsRefresh(awsHeld, t))

\* C2 witness: a request used held credentials after the clock advanced twice
C2_Witness ==
    /\ awsUse = "held"
    /\ now >= awsFetchedAt + 2

\* C3: what a callback returns is a pair of a mapping and an optional expiry;
\* get_credentials returns exactly its three AWS fields, each a string, and
\* credential_provider returns exactly bearer_token, with a timestamp or none.
C3_ReturnShape ==
    /\ (awsRet # <<>> =>
            /\ DOMAIN awsRet[1] = {"creds", "expiry"}
            /\ DOMAIN awsRet[1].creds =
                   {"aws_access_key_id", "aws_secret_access_key", "aws_session_token"}
            /\ \A k \in DOMAIN awsRet[1].creds : awsRet[1].creds[k] \in STRING
            /\ Len(awsRet[1].expiry) <= 1)
    /\ (azRet # <<>> =>
            /\ DOMAIN azRet[1] = {"creds", "expiry"}
            /\ DOMAIN azRet[1].creds = {"bearer_token"}
            /\ Len(azRet[1].expiry) <= 1
            /\ \A i \in 1..Len(azRet[1].expiry) : azRet[1].expiry[i] \in Nat)

\* C3 witness: both callbacks have returned
C3_Witness == awsRet # <<>> /\ azRet # <<>>

\* C9: what credential_provider returns is the secret and the expiry of one
\* token, the one its own get_token call obtained: a token issued after the
\* invocation began, never one of an earlier invocation.
C9_SameToken ==
    /\ (apc = "L71" => token = invStart + 1 /\ token = Len(issued))
    /\ (azRet # <<>> =>
            /\ retToken \in 1..Len(issued)
            /\ azRet[1].creds.bearer_token = issued[retToken].token
            /\ azRet[1].expiry = <<issued[retToken].expires_on>>
            /\ (apc = "idle" => retToken = invStart + 1))

\* C9 witness: the second invocation has returned a token that expires at
\* another time than the first
C9_Witness ==
    /\ azRet # <<>>
    /\ retToken = 2
    /\ apc = "idle"
    /\ issued[1].expires_on # issued[2].expires_on

\* the eager reference of C5: the rows of all files, in file order, that have
\* id < 100, with the two columns id and value in that order
C5_Reference ==
    LET all == bucket[1] \o bucket[2]
    IN [cols |-> <<"id", "value">>,
        rows |-> RestrictAll(SelectSeq(all, LAMBDA r : r.id < 100), {"id", "value"})]

\* C5: for every bucket, the query of line 15, collected with its filter and
\* projection pushed down, yields exactly the eager reference: the rows with
\* id < 100 and only the columns id and value, in that order.
C5_PushdownKeepsResult == qpc = "collected" => df = <<C5_Reference>>

\* C5 witness: a collected query over two files, one of them skipped by its
\* statistics, that keeps a row and drops a row with id = 100
C5_Witness ==
    /\ qpc = "collected"
    /\ Len(df[1].rows) >= 1
    /\ bucket[1] # <<>>
    /\ bucket[2] # <<>>
    /\ \E i \in 1..2 : MinId(bucket[i]) >= QueryBound
    /\ \E i \in 1..2 : \E j \in 1..Len(bucket[i]) : bucket[i][j].id = 100
    /\ schema[1] = "other"

====
